---- MODULE Spec2Model ----
(***************************************************************************)
(* Model of gltext's Text object (src/text.go): glyph layout into a        *)
(* vertex/index buffer, bounding box, recentering, positioning,           *)
(* justification and scale clamping.                                       *)
(*                                                                         *)
(* Number representation.  Every float32 coordinate is held as an integer  *)
(* number of HALF units (value * 2): glyph metrics are ints, so every      *)
(* quantity the code halves (X2 - X1) is a whole number of units and the   *)
(* result is a whole number of half units; all values stay far below 2^24, *)
(* where float32 arithmetic on halves is exact.  Scales are held as an     *)
(* integer number of QUARTERS (value * 4), also exact in float32.          *)
(* A text is the sequence of its runes (codepoints).  Glyph advances are   *)
(* non-negative, as in any font atlas.  The global IsDebug flag is off, so *)
(* the debug dumps and the bounding-box outline are not built; OpenGL      *)
(* calls are outside the model.                                            *)
(***************************************************************************)
EXTENDS Integers, Sequences, FiniteSets, TLC

VARIABLES t, call, steps, ncalls

vars == <<t, call, steps, ncalls>>

\* ------------------------------------------------------------------ bounds
MaxLen == 3
MaxCalls == 4
MaxShortLen == 1

\* ------------------------------------------------------- font / atlas data
\* t.font.config.Low
Low == 65

\* t.font.config.Glyphs, with the UV rectangle GetIndices yields for each
Glyphs ==
  << [Width |-> 10, Height |-> 20, Advance |-> 12,
      uvTopLeft |-> [X |-> 1, Y |-> 2], uvBottomRight |-> [X |-> 3, Y |-> 4]],
     [Width |-> 3, Height |-> 5, Advance |-> 4,
      uvTopLeft |-> [X |-> 5, Y |-> 6], uvBottomRight |-> [X |-> 7, Y |-> 8]] >>

\* t.font.WindowWidth, t.font.WindowHeight
WindowWidth == 640
WindowHeight == 480

AlignLeft == 0
AlignRight == 1

\* -------------------------------------------------------------- inputs
\* one rune below the table, the table's runes, one rune above it
Runes == (Low - 1) .. (Low + Len(Glyphs))

RECURSIVE SeqsUpTo(_)
SeqsUpTo(n) ==
  IF n = 0 THEN {<<>>}
  ELSE LET shorter == SeqsUpTo(n - 1)
       IN shorter \cup {Append(s, r) : s \in {x \in shorter : Len(x) = n - 1}, r \in Runes}

Texts == SeqsUpTo(MaxLen)

\* runes of "%s"
Pct == 37
VerbS == 115
Formats == { <<Pct, VerbS>>, <<Low, Pct, VerbS>> }
Args == { <<>>, <<Low + 1>>, <<Low - 1, Low>> }

ShortTexts == SeqsUpTo(MaxShortLen)

\* SetPosition arguments, in half units: -1 and 1.5
Coords == {-2, 3}

\* scales and scale steps, in quarters
Scales == {1, 2, 4, 6, 8, 9}
Deltas == {-4, -1, 0, 1, 4}
MaxRuneCounts == {-1, 0, 1, 2}

\* -------------------------------------------------------------- helpers
Point(x, y) == [X |-> x, Y |-> y]

\* float32(n) of an int, in half units
Float(n) == 2 * n

\* v / 2; only ever applied to a whole number of units, so it is exact
Half(v) == v \div 2

\* zero-based slice access, as in the Go source
At(s, i) == s[i + 1]
Put(s, i, v) == [s EXCEPT ![i + 1] = v]

\* make([]T, n, n)
Make(n) == [i \in 1..n |-> 0]

\* fmt.Sprintf(fs, arg) for the verb %s and one string operand
RECURSIVE Sprintf(_, _, _)
Sprintf(fs, arg, used) ==
  IF Len(fs) = 0 THEN <<>>
  ELSE IF Len(fs) >= 2 /\ fs[1] = Pct /\ fs[2] = VerbS /\ ~used
       THEN arg \o Sprintf(SubSeq(fs, 3, Len(fs)), arg, TRUE)
       ELSE <<fs[1]>> \o Sprintf(Tail(fs), arg, used)

\* ------------------------------------------------------------- scale
SetScale(tx, s) ==
  IF s > tx.ScaleMax \/ s < tx.ScaleMin
  THEN [t |-> tx, ret |-> FALSE]
  ELSE [t |-> [tx EXCEPT !.Scale = s, !.scaleMatrix = <<s, s, s>>], ret |-> TRUE]

AddScale(tx, s) ==
  IF s < 0 /\ tx.Scale <= tx.ScaleMin THEN [t |-> tx, ret |-> FALSE]
  ELSE IF s > 0 /\ tx.Scale >= tx.ScaleMax THEN [t |-> tx, ret |-> FALSE]
  ELSE [t |-> [tx EXCEPT !.Scale = tx.Scale + s,
                         !.scaleMatrix = <<tx.Scale + s, tx.Scale + s, tx.Scale + s>>],
        ret |-> TRUE]

\* the zero value &Text{}
ZeroText ==
  [finalPosition |-> <<[num |-> 0, den |-> 1], [num |-> 0, den |-> 1]>>,
   Scale |-> 0, ScaleMin |-> 0, ScaleMax |-> 0, scaleMatrix |-> <<0, 0, 0>>,
   vboData |-> <<>>, vboIndexCount |-> 0, eboData |-> <<>>, eboIndexCount |-> 0,
   RuneCount |-> 0, MaxRuneCount |-> 0,
   X1 |-> Point(0, 0), X2 |-> Point(0, 0),
   SetPositionX |-> 0, SetPositionY |-> 0,
   Width |-> 0, Height |-> 0, String |-> <<>>]

\* scale 1, in quarters
One == 4

NewText(scaleMin, scaleMax) ==
  SetScale([ZeroText EXCEPT !.ScaleMin = scaleMin, !.ScaleMax = scaleMax], One).t

\* ------------------------------------------------------------- layout
HasRune(r) == (r - Low) >= 0 /\ (r - Low) < Len(Glyphs)

\* glyphs[r].GetIndices(t.font)
GetIndices(g) == <<g.uvTopLeft, g.uvBottomRight>>

\* getBoundingBox that never raises the upper edge
getBoundingBoxNoMaxY(tx, vboIndex) ==
  LET x == At(tx.vboData, vboIndex - 4)
      y == At(tx.vboData, vboIndex - 3)
  IN IF vboIndex - 4 = 0
     THEN [tx EXCEPT !.X1 = Point(x, y)]
     ELSE [tx EXCEPT !.X1 = Point(IF x < tx.X1.X THEN x ELSE tx.X1.X,
                                  IF y < tx.X1.Y THEN y ELSE tx.X1.Y),
                     !.X2 = Point(IF x > tx.X2.X THEN x ELSE tx.X2.X, tx.X2.Y)]

getBoundingBox(tx, vboIndex) ==
  LET x == At(tx.vboData, vboIndex - 4)
      y == At(tx.vboData, vboIndex - 3)
  IN IF vboIndex - 4 = 0
     THEN [tx EXCEPT !.X1 = Point(x, y)]
     ELSE [tx EXCEPT !.X1 = Point(IF x < tx.X1.X THEN x ELSE tx.X1.X,
                                  IF y < tx.X1.Y THEN y ELSE tx.X1.Y),
                     !.X2 = Point(IF x > tx.X2.X THEN x ELSE tx.X2.X,
                                  IF y > tx.X2.Y THEN y ELSE tx.X2.Y)]

\* one corner of the quad: position, uv, then the bounding box update
EmitVertex(st, x, y, u, v) ==
  LET i == st.vboIndex
      data == Put(Put(Put(Put(st.t.vboData, i, x), i + 1, y), i + 2, u), i + 3, v)
  IN [st EXCEPT !.t = getBoundingBox([st.t EXCEPT !.vboData = data], i + 4),
                !.vboIndex = i + 4]

\* the six triangle indices of one quad
EmitIndices(st) ==
  LET i == st.eboIndex
      o == st.eboOffset
      data == Put(Put(Put(Put(Put(Put(st.t.eboData, i, 0 + o), i + 1, 1 + o), i + 2, 2 + o),
                          i + 3, 0 + o), i + 4, 2 + o), i + 5, 3 + o)
  IN [st EXCEPT !.t = [st.t EXCEPT !.eboData = data],
                !.eboIndex = i + 6,
                !.eboOffset = o + 4]

\* the guard of the loop body: r -= low; r >= 0 && int(r) < len(glyphs)
InTable(r) == r >= 0 /\ r < Len(Glyphs)

\* pen advance after a quad
AdvancePen(st, g) == [st EXCEPT !.lineX = st.lineX + Float(g.Advance)]

\* EmitRune that counts a rune without a glyph metric in the index offset
\* and moves the pen over it
EmitRuneCountingSkipped(st, rune) ==
  LET r == rune - Low
  IN IF InTable(r)
     THEN LET g == Glyphs[r + 1]
              vw == Float(g.Width)
              vh == Float(g.Height)
              tP1 == GetIndices(g)[1]
              tP2 == GetIndices(g)[2]
              lineX == st.lineX
              s1 == EmitVertex(st, lineX, 0, tP1.X, tP2.Y)
              s2 == EmitVertex(s1, lineX + vw, 0, tP2.X, tP2.Y)
              s3 == EmitVertex(s2, lineX + vw, vh, tP2.X, tP1.Y)
              s4 == EmitVertex(s3, lineX, vh, tP1.X, tP1.Y)
          IN EmitIndices(AdvancePen(s4, g))
     ELSE [st EXCEPT !.eboOffset = st.eboOffset + 4, !.lineX = st.lineX + Float(1)]

\* body of the loop of makeBufferData for one rune
EmitRune(st, rune) ==
  LET r == rune - Low
  IN IF InTable(r)
     THEN LET g == Glyphs[r + 1]
              vw == Float(g.Width)
              vh == Float(g.Height)
              tP1 == GetIndices(g)[1]
              tP2 == GetIndices(g)[2]
              lineX == st.lineX
              s1 == EmitVertex(st, lineX, 0, tP1.X, tP2.Y)
              s2 == EmitVertex(s1, lineX + vw, 0, tP2.X, tP2.Y)
              s3 == EmitVertex(s2, lineX + vw, vh, tP2.X, tP1.Y)
              s4 == EmitVertex(s3, lineX, vh, tP1.X, tP1.Y)
          IN EmitIndices(AdvancePen(s4, g))
     ELSE st

RECURSIVE makeBufferDataLoop(_, _, _)
makeBufferDataLoop(st, indices, i) ==
  IF i > Len(indices) THEN st
  ELSE makeBufferDataLoop(EmitRune(st, indices[i]), indices, i + 1)

makeBufferData(tx, indices) ==
  makeBufferDataLoop([t |-> tx, vboIndex |-> 0, eboIndex |-> 0, lineX |-> 0, eboOffset |-> 0],
                     indices, 1).t

\* getLowerLeft without the halving
getLowerLeftFull(tx) ==
  Point(-(tx.X2.X - tx.X1.X), -(tx.X2.Y - tx.X1.Y))

getLowerLeft(tx) ==
  LET lineWidthHalf == Half(tx.X2.X - tx.X1.X)
      lineHeightHalf == Half(tx.X2.Y - tx.X1.Y)
  IN Point(-lineWidthHalf, -lineHeightHalf)

setDataPosition(tx, lowerLeft) ==
  LET data == [i \in 1..Len(tx.vboData) |->
                 IF (i - 1) % 4 = 0 THEN tx.vboData[i] + lowerLeft.X
                 ELSE IF (i - 1) % 4 = 1 THEN tx.vboData[i] + lowerLeft.Y
                 ELSE tx.vboData[i]]
      x1 == Point(tx.X1.X + lowerLeft.X, tx.X1.Y + lowerLeft.Y)
      x2 == Point(tx.X2.X + lowerLeft.X, tx.X2.Y + lowerLeft.Y)
  IN [tx EXCEPT !.vboData = data, !.X1 = x1, !.X2 = x2,
                !.Width = x2.X - x1.X, !.Height = x2.Y - x1.Y]

\* x / (WindowWidth / 2) with x in half units, kept as an exact fraction
Ndc(v, window) == [num |-> v, den |-> window]

SetPosition(tx, x, y) ==
  [tx EXCEPT !.finalPosition = <<Ndc(x, WindowWidth), Ndc(y, WindowHeight)>>,
             !.X1 = Point(tx.X1.X + x, tx.X1.Y + y),
             !.X2 = Point(tx.X2.X + x, tx.X2.Y + y),
             !.SetPositionX = x,
             !.SetPositionY = y]

\* Justify that does not recentre the box before SetPosition
JustifyNoRecentre(tx, align) ==
  LET sign == IF align = AlignRight THEN -1 ELSE 1
      x == tx.SetPositionX + sign * Half(tx.X2.X - tx.X1.X)
      y == tx.SetPositionY
  IN SetPosition(tx, x, y)

Justify(tx, align) ==
  LET sign == IF align = AlignRight THEN -1 ELSE 1
      x == tx.SetPositionX + sign * Half(tx.X2.X - tx.X1.X)
      y == tx.SetPositionY
      tX2 == Point(Half(tx.X2.X - tx.X1.X), Half(tx.X2.Y - tx.X1.Y))
      tX1 == Point(-tX2.X, -tX2.Y)
  IN SetPosition([tx EXCEPT !.X2 = tX2, !.X1 = tX1], x, y)

\* if MaxRuneCount > 0 && len(indices) > MaxRuneCount+1 { indices = indices[0:MaxRuneCount] }
Truncate(indices, m) ==
  IF m > 0 /\ Len(indices) > m + 1 THEN SubSeq(indices, 1, m) ELSE indices

\* Allocate sizing the buffers by the runes that have a glyph metric
AllocatePerGlyph(tx, indices) ==
  LET k == Len(SelectSeq(indices, LAMBDA r : r - Low >= 0 /\ r - Low < Len(Glyphs)))
  IN [tx EXCEPT !.String = indices,
                !.vboIndexCount = k * 4 * 2 * 2,
                !.eboIndexCount = k * 6,
                !.RuneCount = Len(indices),
                !.vboData = Make(k * 4 * 2 * 2),
                !.eboData = Make(k * 6),
                !.X1 = Point(0, 0),
                !.X2 = Point(0, 0)]

\* buffer sizes and fresh buffers, bounding box reset
Allocate(tx, indices) ==
  [tx EXCEPT !.String = indices,
             !.vboIndexCount = Len(indices) * 4 * 2 * 2,
             !.eboIndexCount = Len(indices) * 6,
             !.RuneCount = Len(indices),
             !.vboData = Make(Len(indices) * 4 * 2 * 2),
             !.eboData = Make(Len(indices) * 6),
             !.X1 = Point(0, 0),
             !.X2 = Point(0, 0)]

\* SetString that clears the Text on a text of zero runes
SetStringResetOnEmpty(tx, text) ==
  IF Len(text) = 0 THEN [laid |-> FALSE, done |-> Allocate(tx, text)]
  ELSE LET indices == Truncate(text, tx.MaxRuneCount)
           made == makeBufferData(Allocate(tx, indices), indices)
           centred == setDataPosition(made, getLowerLeft(made))
       IN [laid |-> TRUE, made |-> made, centred |-> centred,
           done |-> SetPosition(centred, centred.SetPositionX, centred.SetPositionY)]

\* SetString that does not reapply the stored anchor
SetStringNoReposition(tx, text) ==
  IF Len(text) = 0 THEN [laid |-> FALSE, done |-> tx]
  ELSE LET indices == Truncate(text, tx.MaxRuneCount)
           made == makeBufferData(Allocate(tx, indices), indices)
           centred == setDataPosition(made, getLowerLeft(made))
       IN [laid |-> TRUE, made |-> made, centred |-> centred, done |-> centred]

\* SetString: the Text it returns with (done), whether a layout took place
\* (laid), and the Text as it stood after makeBufferData (made) and after
\* setDataPosition (centred)
SetString(tx, text) ==
  IF Len(text) = 0 THEN [laid |-> FALSE, done |-> tx]
  ELSE LET indices == Truncate(text, tx.MaxRuneCount)
           made == makeBufferData(Allocate(tx, indices), indices)
           centred == setDataPosition(made, getLowerLeft(made))
       IN [laid |-> TRUE, made |-> made, centred |-> centred,
           done |-> SetPosition(centred, centred.SetPositionX, centred.SetPositionY)]

\* ------------------------------------------------------------- state machine
\* the most recent public call: its name, arguments and return value, and
\* whether it repeats the call before it (same method, same arguments)
NoCall == [op |-> "NewText", text |-> <<>>, x |-> 0, y |-> 0, align |-> AlignLeft,
           s |-> 0, ret |-> TRUE, again |-> FALSE]

Called(c) ==
  [c EXCEPT !.again = /\ call.op = c.op /\ call.text = c.text /\ call.x = c.x
                      /\ call.y = c.y /\ call.align = c.align /\ call.s = c.s]

ScaleRanges == { <<2, 8>>, <<4, 4>>, <<6, 8>> }

\* the geometry a phase of SetString leaves behind
Geometry(tx) == [vboData |-> tx.vboData, eboData |-> tx.eboData, X1 |-> tx.X1, X2 |-> tx.X2]

NoSteps == [made |-> Geometry(ZeroText), centred |-> Geometry(ZeroText)]

\* a fresh Text with the default scale range [0.5, 2.0] and any MaxRuneCount
Init ==
  /\ \E m \in {0, 1} : t = [NewText(2, 8) EXCEPT !.MaxRuneCount = m]
  /\ call = NoCall
  /\ steps = NoSteps
  /\ ncalls = 0

InitLayout ==
  /\ \E m \in MaxRuneCounts : t = [NewText(2, 8) EXCEPT !.MaxRuneCount = m]
  /\ call = NoCall
  /\ steps = NoSteps
  /\ ncalls = 0

InitScale ==
  /\ \E sr \in ScaleRanges : t = NewText(sr[1], sr[2])
  /\ call = NoCall
  /\ steps = NoSteps
  /\ ncalls = 0

\* one more public call, while the budget lasts
Count == ncalls < MaxCalls /\ ncalls' = ncalls + 1

DoSetString(text) ==
  \E r \in {SetString(t, text)} :
     /\ t' = r.done
     /\ steps' = IF r.laid THEN [made |-> Geometry(r.made), centred |-> Geometry(r.centred)]
                 ELSE steps
     /\ call' = Called([NoCall EXCEPT !.op = "SetString", !.text = text])

SetStringPlain == UNCHANGED ncalls /\ \E fs \in Texts : DoSetString(fs)

SetStringFormatted == UNCHANGED ncalls /\ \E fs \in Formats, arg \in Args : DoSetString(Sprintf(fs, arg, FALSE))

SetStringShort == Count /\ \E fs \in ShortTexts : DoSetString(fs)

SetStringShortFormatted ==
  Count /\ \E fs \in Formats, arg \in Args : DoSetString(Sprintf(fs, arg, FALSE))

SetPositionCall ==
  \E x \in Coords, y \in Coords :
     /\ Count
     /\ t' = SetPosition(t, x, y)
     /\ call' = Called([NoCall EXCEPT !.op = "SetPosition", !.x = x, !.y = y])
     /\ UNCHANGED steps

JustifyCall ==
  \E align \in {AlignLeft, AlignRight} :
     /\ Count
     /\ t' = Justify(t, align)
     /\ call' = Called([NoCall EXCEPT !.op = "Justify", !.align = align])
     /\ UNCHANGED steps

SetScaleCall ==
  \E s \in Scales :
     /\ t' = SetScale(t, s).t
     /\ call' = Called([NoCall EXCEPT !.op = "SetScale", !.s = s, !.ret = SetScale(t, s).ret])
     /\ UNCHANGED <<steps, ncalls>>

AddScaleCall ==
  \E s \in Deltas :
     /\ t' = AddScale(t, s).t
     /\ call' = Called([NoCall EXCEPT !.op = "AddScale", !.s = s, !.ret = AddScale(t, s).ret])
     /\ UNCHANGED <<steps, ncalls>>

\* positioning: short and formatted texts, SetPosition, Justify
Next == SetStringShort \/ SetStringShortFormatted \/ SetPositionCall \/ JustifyCall

Spec == Init /\ [][Next]_vars

\* layout alone: every text up to MaxLen, plain and formatted, anchor (0,0)
NextLayout == SetStringPlain \/ SetStringFormatted

SpecLayout == InitLayout /\ [][NextLayout]_vars

\* scale alone
NextScale == SetScaleCall \/ AddScaleCall

SpecScale == InitScale /\ [][NextScale]_vars

\* ------------------------------------------------------------- properties
\* the runes of a text that have a glyph metric, in order
LaidOut(text) == SelectSeq(text, HasRune)

\* the first m runes of a text when m > 0 and the text is longer, else the text
FirstRunes(text, m) == IF m > 0 /\ Len(text) > m THEN SubSeq(text, 1, m) ELSE text

\* a SetString that laid a text out has just returned
JustLaidOut == call.op = "SetString" /\ Len(call.text) > 0

\* the glyph metric of a rune that has one
GlyphOf(r) == Glyphs[r - Low + 1]

\* pen position (in half units) in front of the i-th glyph (1-based) of a
\* text made of runes that all have a glyph metric
RECURSIVE PenBefore(_, _)
PenBefore(glyphRunes, i) ==
  IF i <= 1 THEN 0 ELSE PenBefore(glyphRunes, i - 1) + 2 * GlyphOf(glyphRunes[i - 1]).Advance

\* position of vertex v (0-based) in a vertex buffer
VertexX(data, v) == data[4 * v + 1]
VertexY(data, v) == data[4 * v + 2]

\* C1: after SetString of a text of n > 0 runes, String (and the runes laid
\* out, RuneCount of them) is exactly the first MaxRuneCount runes whenever
\* MaxRuneCount = m > 0 and n > m, the case n = m + 1 included, and the whole
\* text otherwise.
C1_Truncation ==
  JustLaidOut =>
     /\ t.String = FirstRunes(call.text, t.MaxRuneCount)
     /\ t.RuneCount = Len(FirstRunes(call.text, t.MaxRuneCount))

\* C2 (as claimed): after SetString of a non-empty text with k laid-out runes
\* the vertex buffer has 16k floats and the index buffer 6k indices.
C2_CountLawPerGlyph ==
  JustLaidOut =>
     LET k == Len(LaidOut(t.String))
     IN /\ Len(t.vboData) = 16 * k /\ t.vboIndexCount = 16 * k
        /\ Len(t.eboData) = 6 * k /\ t.eboIndexCount = 6 * k

\* C2 (amended): after SetString of a non-empty text the vertex buffer has 16n
\* floats and the index buffer 6n indices, n the number of runes kept after
\* truncation, with or without a glyph metric; the k laid-out runes fill the
\* first 16k floats and 6k indices, and each rune without a glyph metric
\* leaves 16 floats (zero before recentering) and 6 zero indices at the tail.
C2_CountLawPerRune ==
  JustLaidOut =>
     LET n == Len(t.String)
         k == Len(LaidOut(t.String))
     IN /\ Len(t.vboData) = 16 * n /\ t.vboIndexCount = 16 * n
        /\ Len(t.eboData) = 6 * n /\ t.eboIndexCount = 6 * n
        /\ t.RuneCount = n
        /\ Len(steps.made.vboData) = 16 * n
        /\ \A i \in (16 * k + 1)..(16 * n) : steps.made.vboData[i] = 0
        /\ \A i \in (6 * k + 1)..(6 * n) : t.eboData[i] = 0
        /\ \A i \in 1..(6 * k) : t.eboData[i] = 4 * ((i - 1) \div 6) + <<0, 1, 2, 0, 2, 3>>[((i - 1) % 6) + 1]

\* a text with a rune that has no glyph metric was laid out
C2_Witness ==
  JustLaidOut /\ Len(LaidOut(t.String)) >= 1 /\ Len(LaidOut(t.String)) < Len(t.String)

\* Scale lies within [ScaleMin, ScaleMax]
ScaleInRange(tx) == tx.ScaleMin <= tx.Scale /\ tx.Scale <= tx.ScaleMax

\* the scale a call asks for: s for SetScale(s), Scale + d for AddScale(d)
Requested(tx, c) == IF c.op = "SetScale" THEN c.s ELSE tx.Scale + c.s

\* C3: on a Text whose Scale is within [ScaleMin, ScaleMax], a SetScale or
\* AddScale whose resulting scale falls outside the range returns false and
\* leaves Scale unchanged, every other call returns true and stores the
\* resulting scale; so Scale stays within the range.
C3_ScaleClamp ==
  [][ (call'.op \in {"SetScale", "AddScale"} /\ ScaleInRange(t)) =>
        LET r == Requested(t, call')
        IN /\ ScaleInRange(t')
           /\ IF r < t.ScaleMin \/ r > t.ScaleMax
              THEN call'.ret = FALSE /\ t'.Scale = t.Scale
              ELSE call'.ret = TRUE /\ t'.Scale = r ]_vars

\* anchor and bounding box of a Text
Anchor(tx) == Point(tx.SetPositionX, tx.SetPositionY)
SameBoxAndAnchor(a, b) == a.X1 = b.X1 /\ a.X2 = b.X2 /\ Anchor(a) = Anchor(b)

\* C4 (as claimed): on a laid-out Text a Justify(a) that directly follows a
\* Justify(a) leaves the bounding box and the anchor as the first left them.
C4_JustifyIdempotent ==
  [][ (call'.op = "Justify" /\ call'.again /\ Len(t.String) > 0) => SameBoxAndAnchor(t', t) ]_vars

\* C4 (amended): Justify is not idempotent.  Every Justify(a), repeated or
\* not, moves the anchor X by half the box width (+ for AlignLeft, - for
\* AlignRight), keeps the anchor Y and the box size, and leaves the box
\* centred on the new anchor; a Justify(a) directly after a Justify(a) leaves
\* box and anchor as they were only when the box width is 0.
C4_JustifyShifts ==
  [][ call'.op = "Justify" =>
        LET sign == IF call'.align = AlignRight THEN -1 ELSE 1
        IN /\ 2 * (t'.SetPositionX - t.SetPositionX) = sign * (t.X2.X - t.X1.X)
           /\ t'.SetPositionY = t.SetPositionY
           /\ t'.X2.X - t'.X1.X = t.X2.X - t.X1.X
           /\ t'.X2.Y - t'.X1.Y = t.X2.Y - t.X1.Y
           /\ t'.X1.X + t'.X2.X = 2 * t'.SetPositionX
           /\ t'.X1.Y + t'.X2.Y = 2 * t'.SetPositionY
           /\ (call'.again /\ Len(t.String) > 0) =>
                 (SameBoxAndAnchor(t', t) <=> t.X2.X = t.X1.X) ]_vars

\* a Justify has directly followed the same Justify on a text of positive width
C4_Witness ==
  call.op = "Justify" /\ call.again /\ Len(t.String) > 0 /\ t.X2.X > t.X1.X

\* width and height (in half units) of the quads of a text made of runes
\* that all have a glyph metric
RECURSIVE QuadsWidth(_, _)
QuadsWidth(glyphRunes, i) ==
  IF i = 0 THEN 0
  ELSE LET rest == QuadsWidth(glyphRunes, i - 1)
           right == PenBefore(glyphRunes, i) + 2 * GlyphOf(glyphRunes[i]).Width
       IN IF right > rest THEN right ELSE rest

RECURSIVE QuadsHeight(_, _)
QuadsHeight(glyphRunes, i) ==
  IF i = 0 THEN 0
  ELSE LET rest == QuadsHeight(glyphRunes, i - 1)
           top == 2 * GlyphOf(glyphRunes[i]).Height
       IN IF top > rest THEN top ELSE rest

\* C8: SetString of a text of zero runes, given directly or produced by
\* formatting, leaves every field of the Text as it was.
C8_EmptyIsNoOp ==
  [][ (call'.op = "SetString" /\ Len(call'.text) = 0) => (t' = t /\ steps' = steps) ]_vars

\* an empty SetString has returned on a laid-out, positioned Text
C8_Witness ==
  /\ call.op = "SetString" /\ Len(call.text) = 0
  /\ Len(LaidOut(t.String)) >= 1 /\ t.SetPositionX # 0 /\ t.SetPositionY # 0

\* C9: SetPosition(x, y) translates X1/X2 by (x, y) and stores (x, y) as the
\* anchor; a SetString of a non-empty text keeps the anchor, leaves the box
\* equal to the new text's origin-centred box translated by the anchor (its
\* centre is the anchor, Width/Height are the new text's) and leaves the
\* vertex positions centred on the origin.
C9_RelayoutKeepsAnchor ==
  [][ /\ call'.op = "SetPosition" =>
           /\ t'.X1 = Point(t.X1.X + call'.x, t.X1.Y + call'.y)
           /\ t'.X2 = Point(t.X2.X + call'.x, t.X2.Y + call'.y)
           /\ Anchor(t') = Point(call'.x, call'.y)
      /\ (call'.op = "SetString" /\ Len(call'.text) > 0) =>
           LET g == LaidOut(t'.String)
               w == QuadsWidth(g, Len(g))
               h == QuadsHeight(g, Len(g))
               c == steps'.centred
           IN /\ Anchor(t') = Anchor(t)
              /\ t'.X1.X + t'.X2.X = 2 * t.SetPositionX
              /\ t'.X1.Y + t'.X2.Y = 2 * t.SetPositionY
              /\ t'.X2.X - t'.X1.X = w /\ t'.Width = w
              /\ t'.X2.Y - t'.X1.Y = h /\ t'.Height = h
              /\ t'.X1 = Point(c.X1.X + t.SetPositionX, c.X1.Y + t.SetPositionY)
              /\ t'.X2 = Point(c.X2.X + t.SetPositionX, c.X2.Y + t.SetPositionY)
              /\ c.X1.X + c.X2.X = 0 /\ c.X1.Y + c.X2.Y = 0
              /\ t'.vboData = c.vboData
              /\ \A v \in 0..(4 * Len(g) - 1) :
                    /\ c.X1.X <= VertexX(t'.vboData, v) /\ VertexX(t'.vboData, v) <= c.X2.X
                    /\ c.X1.Y <= VertexY(t'.vboData, v) /\ VertexY(t'.vboData, v) <= c.X2.Y ]_vars

\* a text with a glyph has been laid out on a Text anchored away from the origin
C9_Witness ==
  /\ JustLaidOut /\ Len(LaidOut(t.String)) >= 1
  /\ t.SetPositionX # 0 /\ t.SetPositionY # 0
  /\ t.X1.X + t.X2.X = 2 * t.SetPositionX

\* C10: once a text has been laid out, after any sequence of SetString,
\* SetPosition and Justify calls the centre of the bounding box is the stored
\* anchor and X2 - X1 is (Width, Height).
C10_BoxCentredOnAnchor ==
  Len(t.String) > 0 =>
     /\ t.X1.X + t.X2.X = 2 * t.SetPositionX
     /\ t.X1.Y + t.X2.Y = 2 * t.SetPositionY
     /\ t.X2.X - t.X1.X = t.Width
     /\ t.X2.Y - t.X1.Y = t.Height

\* C5: after the layout of a text with at least one laid-out glyph on a Text
\* anchored at (0,0), X1 + X2 = (0,0), every emitted vertex position is its
\* position before recentering plus lowerLeft = (-(X2.X-X1.X)/2,
\* -(X2.Y-X1.Y)/2), Width = X2.X - X1.X and Height = X2.Y - X1.Y; one glyph
\* of width 10 and height 20 gives X1 = (-5,-10), X2 = (5,10), which is
\* (-10,-20) and (10,20) in half units.
C5_Centering ==
  (JustLaidOut /\ Len(LaidOut(t.String)) >= 1 /\ Anchor(t) = Point(0, 0)) =>
     /\ t.X1.X + t.X2.X = 0 /\ t.X1.Y + t.X2.Y = 0
     /\ t.Width = t.X2.X - t.X1.X /\ t.Height = t.X2.Y - t.X1.Y
     /\ \A v \in 0..(4 * Len(LaidOut(t.String)) - 1) :
           /\ 2 * (VertexX(t.vboData, v) - VertexX(steps.made.vboData, v)) = -(t.X2.X - t.X1.X)
           /\ 2 * (VertexY(t.vboData, v) - VertexY(steps.made.vboData, v)) = -(t.X2.Y - t.X1.Y)
     /\ (LaidOut(t.String) = <<Low>>) => (t.X1 = Point(-10, -20) /\ t.X2 = Point(10, 20))

\* a text of two or more glyphs, the first of them 10 wide and 20 high, was laid out
C5_Witness ==
  JustLaidOut /\ Len(LaidOut(t.String)) >= 2 /\ LaidOut(t.String)[1] = Low /\ t.X2.X > 10

\* the box of a geometry encloses the first n vertices and each of its four
\* edges is attained by one of them
Tight(g, n) ==
  /\ g.X1.X <= g.X2.X /\ g.X1.Y <= g.X2.Y
  /\ \A v \in 0..(n - 1) :
        /\ g.X1.X <= VertexX(g.vboData, v) /\ VertexX(g.vboData, v) <= g.X2.X
        /\ g.X1.Y <= VertexY(g.vboData, v) /\ VertexY(g.vboData, v) <= g.X2.Y
  /\ \E v \in 0..(n - 1) : VertexX(g.vboData, v) = g.X1.X
  /\ \E v \in 0..(n - 1) : VertexX(g.vboData, v) = g.X2.X
  /\ \E v \in 0..(n - 1) : VertexY(g.vboData, v) = g.X1.Y
  /\ \E v \in 0..(n - 1) : VertexY(g.vboData, v) = g.X2.Y

\* C6: after the layout of a text with at least one laid-out glyph, before
\* and after recentering, X1 <= X2 componentwise, every emitted vertex
\* position lies within [X1, X2] and each of the four box edges is attained
\* by an emitted vertex.
C6_BoxTight ==
  (JustLaidOut /\ Len(LaidOut(t.String)) >= 1) =>
     /\ Tight(steps.made, 4 * Len(LaidOut(t.String)))
     /\ Tight(steps.centred, 4 * Len(LaidOut(t.String)))

\* glyphs of different heights were laid out around a rune without a glyph metric
C6_Witness ==
  /\ JustLaidOut /\ Len(t.String) = 3
  /\ HasRune(t.String[1]) /\ ~HasRune(t.String[2]) /\ HasRune(t.String[3])
  /\ t.String[1] # t.String[3]
  /\ steps.made.X2.Y > 0

\* C7: a rune without a glyph metric contributes no quad, no indices and no
\* pen advance: before recentering the i-th emitted glyph has its lower-left
\* corner at x = the sum of the advances of the glyphs emitted before it and
\* y = 0, size (width, height), corners in the order (0,0),(1,0),(1,1),(0,1)
\* and indices 4i+0, 4i+1, 4i+2, 4i+0, 4i+2, 4i+3; these quads and indices are
\* those produced for the text with the runes without a glyph metric removed.
C7_SkipBehaviour ==
  (JustLaidOut /\ Len(LaidOut(t.String)) >= 1) =>
     LET g == LaidOut(t.String)
         k == Len(g)
         d == steps.made.vboData
         alone == SetString([t EXCEPT !.MaxRuneCount = 0], g).made
     IN /\ \A i \in 0..(k - 1) :
             LET pen == PenBefore(g, i + 1)
                 w == 2 * GlyphOf(g[i + 1]).Width
                 h == 2 * GlyphOf(g[i + 1]).Height
             IN /\ VertexX(d, 4 * i) = pen /\ VertexY(d, 4 * i) = 0
                /\ VertexX(d, 4 * i + 1) = pen + w /\ VertexY(d, 4 * i + 1) = 0
                /\ VertexX(d, 4 * i + 2) = pen + w /\ VertexY(d, 4 * i + 2) = h
                /\ VertexX(d, 4 * i + 3) = pen /\ VertexY(d, 4 * i + 3) = h
                /\ SubSeq(t.eboData, 6 * i + 1, 6 * i + 6) =
                      <<4 * i, 4 * i + 1, 4 * i + 2, 4 * i, 4 * i + 2, 4 * i + 3>>
        /\ SubSeq(d, 1, 16 * k) = alone.vboData
        /\ SubSeq(t.eboData, 1, 6 * k) = alone.eboData
        /\ steps.made.X1 = alone.X1 /\ steps.made.X2 = alone.X2

\* a rune below the table and a rune above it were skipped between glyphs
C7_Witness ==
  /\ JustLaidOut /\ Len(LaidOut(t.String)) >= 1
  /\ \E i \in 1..Len(t.String) : t.String[i] < Low
  /\ \E i \in 1..Len(t.String) : t.String[i] >= Low + Len(Glyphs)
  /\ ~HasRune(t.String[1])

====
